---- MODULE Spec2Model ----
(***************************************************************************)
(* Recycling Sorter (src/pr.py): the Game object as a state machine.       *)
(*                                                                         *)
(* Units.  Item positions, velocities and rotation are Python floats; they *)
(* are kept here as fixed-point integers in thousandths (x = 60000 is the  *)
(* float 60.0).  Every increment the code applies (gravity * 0.02, vx, vy, *)
(* rot_speed) is a whole number of thousandths for the inputs drawn below. *)
(* Pointer positions and rectangles are integer pixels, as in pygame.      *)
(* Times (dt, level_time_left, tip_timer) are integer milliseconds:        *)
(* dt = clock.tick(FPS) / 1000.0 with clock.tick returning whole ms.       *)
(***************************************************************************)
EXTENDS Integers, Sequences, FiniteSets, TLC

\* ------------------------------------------------------------------ bounds
\* update() calls explored in the first round
MaxFrames == 320
\* restarts (key R in GAMEOVER) explored in one run
MaxRestarts == 1
\* update() calls explored in a round begun by a restart
MaxRestartFrames == 11
\* Items in play at once: a frame that would spawn one more is not explored
MaxItems == 2
\* drops and misses explored in one run of SpecScoring and of SpecLevels
MaxDrops == 32
\* update() calls explored in one round of SpecLevels
MaxStalls == 5
\* update() calls explored in one round of FairRound (no round needs them all)
MaxRoundFrames == 20
\* drops and misses explored in one round of FairRound
MaxRoundDrops == 15

\* ------------------------------------------------------------------ config
Unit == 1000

SCREEN_W == 1000
SCREEN_H == 650
LIVES_START == 3
ITEM_W == 120
ITEM_H == 40

BINS == <<"Paper", "Plastic", "Metal", "Organic", "E-Waste">>

ITEMS ==
     ("Newspaper"   :> <<"Paper",   "Paper goes in blue bin. Keep it dry.">>)
  @@ ("Cardboard"   :> <<"Paper",   "Flatten boxes to save space.">>)
  @@ ("Notebook"    :> <<"Paper",   "Remove plastic spirals when possible.">>)
  @@ ("Magazine"    :> <<"Paper",   "Glossy paper can be recycled in many cities.">>)
  @@ ("Paper Cup"   :> <<"Paper",   "If wax-lined, check local rules.">>)
  @@ ("Bottle"      :> <<"Plastic", "Empty and crush to save space.">>)
  @@ ("Food Box"    :> <<"Plastic", "Rinse to avoid contamination.">>)
  @@ ("Straw"       :> <<"Plastic", "Hard to recycle; avoid single-use.">>)
  @@ ("Milk Jug"    :> <<"Plastic", "Caps on or off depends on locale.">>)
  @@ ("Toothbrush"  :> <<"Plastic", "Consider bamboo alternatives.">>)
  @@ ("Can"         :> <<"Metal",   "Aluminum recycles endlessly!">>)
  @@ ("Tin Can"     :> <<"Metal",   "Rinse before recycling.">>)
  @@ ("Soda Can"    :> <<"Metal",   "Crush cans to save space.">>)
  @@ ("Foil"        :> <<"Metal",   "Clean foil can be recycled if balled up.">>)
  @@ ("Steel Lid"   :> <<"Metal",   "Attach to can if safe.">>)
  @@ ("Banana Peel" :> <<"Organic", "Great for compost.">>)
  @@ ("Apple Core"  :> <<"Organic", "Compost to enrich soil.">>)
  @@ ("Tea Bag"     :> <<"Organic", "Check if bag has plastic.">>)
  @@ ("Leaves"      :> <<"Organic", "Compost yard waste.">>)
  @@ ("Egg Shells"  :> <<"Organic", "Add to compost for calcium.">>)
  @@ ("Phone"       :> <<"E-Waste", "Take to e-waste drop-off.">>)
  @@ ("Battery"     :> <<"E-Waste", "Never bin batteries!">>)
  @@ ("Charger"     :> <<"E-Waste", "E-waste centers recover metals.">>)
  @@ ("Earphones"   :> <<"E-Waste", "Recycle wires/e-waste properly.">>)
  @@ ("Keyboard"    :> <<"E-Waste", "Contains valuable components.">>)

\* (fall_speed in thousandths, spawn_interval_frames, level_duration_seconds,
\*  target_score)
LEVELS ==
  << <<2400, 75, 50, 200>>,
     <<3000, 65, 55, 450>>,
     <<3600, 58, 60, 800>>,
     <<4200, 52, 60, 1200>>,
     <<4800, 46, 65, 1700>> >>

\* ------------------------------------------------------------------ helpers
Min(a, b) == IF a <= b THEN a ELSE b

\* Python int() on a float: truncation toward zero (argument in thousandths)
int(v) == IF v >= 0 THEN v \div Unit ELSE -((-v) \div Unit)

\* pygame.Rect.colliderect for rectangles of positive size
colliderect(a, b) ==
  /\ a.x < b.x + b.w
  /\ a.y < b.y + b.h
  /\ a.x + a.w > b.x
  /\ a.y + a.h > b.y

\* pygame.Rect.collidepoint: left/top edges inside, right/bottom edges outside
collidepoint(r, pos) ==
  /\ r.x <= pos[1] /\ pos[1] < r.x + r.w
  /\ r.y <= pos[2] /\ pos[2] < r.y + r.h

\* Item.rect
rect(it) == [x |-> int(it.x), y |-> int(it.y), w |-> ITEM_W, h |-> ITEM_H]

\* the receptacles built by Game.reset, in list order (index 1..5)
bins ==
  LET margin == 20
      bin_w  == (SCREEN_W - margin * (Len(BINS) + 1)) \div Len(BINS)
      bin_h  == 110
      y      == SCREEN_H - bin_h - 20
  IN  [i \in 1..Len(BINS) |->
         [label |-> BINS[i],
          rect  |-> [x |-> margin + (i - 1) * (bin_w + margin), y |-> y,
                     w |-> bin_w, h |-> bin_h]]]

\* the high-score file: absent, unparsable, or {"hiscore": n}
load_hiscore(f) == IF f.kind = "json" THEN f.hiscore ELSE 0

\* save_hiscore swallows every exception; wr is what the write did:
\* "ok", "open_failed" (file untouched) or "dump_failed" (opened with "w",
\* hence truncated, then the dump raised)
SaveOutcomes == {"ok", "open_failed", "dump_failed"}
save_hiscore(f, s, wr) ==
  CASE wr = "ok"          -> [kind |-> "json", hiscore |-> s]
    [] wr = "open_failed" -> f
    [] wr = "dump_failed" -> [kind |-> "corrupt", hiscore |-> 0]

\* list.remove(it): drops the first element equal to it, ValueError swallowed
list_remove(s, it) ==
  IF \E i \in 1..Len(s) : s[i] = it
  THEN LET k == CHOOSE i \in 1..Len(s) :
                  s[i] = it /\ \A j \in 1..(i - 1) : s[j] # it
       IN  [i \in 1..(Len(s) - 1) |-> IF i < k THEN s[i] ELSE s[i + 1]]
  ELSE s

\* ------------------------------------------------------------------ state
VARIABLES
  state,              \* "MENU", "PLAYING", "PAUSE", "GAMEOVER"
  items,              \* self.items: sequence of Item records, oldest first
  score, hiscore, lives, streak,
  level,              \* 0-based index into LEVELS
  level_time_left,    \* ms
  level_target,
  frames_since_spawn,
  tip_message,        \* <<>> is the empty string
  tip_timer,          \* ms
  hiscore_file,       \* content of HISCORE_FILE
  writes,             \* calls of save_hiscore so far
  run_dt,             \* run(): dt of the last frame that called update, ms
  button,             \* left mouse button is held down (input device)
  spawned,            \* Items constructed so far; gives each Item its identity
  frames,             \* update() calls so far in this round
  restarts            \* restarts so far (bounded by MaxRestarts)

vars == <<state, items, score, hiscore, lives, streak, level, level_time_left,
          level_target, frames_since_spawn, tip_message, tip_timer,
          hiscore_file, writes, run_dt, button, spawned, frames,
          restarts>>

\* the Game object's fields as one record, for the methods below
self ==
  [state |-> state, items |-> items, score |-> score, hiscore |-> hiscore,
   lives |-> lives, streak |-> streak, level |-> level,
   level_time_left |-> level_time_left, level_target |-> level_target,
   frames_since_spawn |-> frames_since_spawn, tip_message |-> tip_message,
   tip_timer |-> tip_timer, hiscore_file |-> hiscore_file, writes |-> writes]

\* the Game object's fields after a method returned g
Becomes(g) ==
  /\ state' = g.state
  /\ items' = g.items
  /\ score' = g.score
  /\ hiscore' = g.hiscore
  /\ lives' = g.lives
  /\ streak' = g.streak
  /\ level' = g.level
  /\ level_time_left' = g.level_time_left
  /\ level_target' = g.level_target
  /\ frames_since_spawn' = g.frames_since_spawn
  /\ tip_message' = g.tip_message
  /\ tip_timer' = g.tip_timer
  /\ hiscore_file' = g.hiscore_file
  /\ writes' = g.writes

\* ------------------------------------------------------------------ methods
\* Item.update
Item_update(it, gravity) ==
  IF ~it.dragging
  THEN LET vy == it.vy + (gravity * 2) \div 100     \* gravity * 0.02
       IN  [it EXCEPT !.vy = vy, !.x = @ + it.vx, !.y = @ + vy,
                      !.rot = @ + it.rot_speed]
  ELSE it

\* Game.reset
reset(g, full) ==
  [g EXCEPT !.items = <<>>,
            !.score = 0,
            !.hiscore = load_hiscore(g.hiscore_file),
            !.lives = LIVES_START,
            !.level = 0,
            !.level_time_left = LEVELS[1][3] * 1000,
            !.level_target = LEVELS[1][4],
            !.frames_since_spawn = 0,
            !.streak = 0,
            !.tip_message = <<>>,
            !.tip_timer = 0,
            !.state = IF full THEN "MENU" ELSE "PLAYING"]

\* Game.spawn_item; the random draws and the new object's identity are inputs
spawn_item(g, id, name, x, vx, vy, rot_speed) ==
  [g EXCEPT !.items = Append(@,
     [id |-> id, name |-> name, category |-> ITEMS[name][1],
      tip |-> ITEMS[name][2], x |-> x * Unit, y |-> (-50) * Unit,
      vx |-> vx, vy |-> vy, dragging |-> FALSE,
      grabbed_dx |-> 0, grabbed_dy |-> 0, rot |-> 0, rot_speed |-> rot_speed])]

\* game_over without "self.hiscore = self.score"
game_over_file_only(g, wr) ==
  LET g1 == [g EXCEPT !.state = "GAMEOVER"]
  IN  IF g1.score > g1.hiscore
      THEN [g1 EXCEPT !.hiscore_file = save_hiscore(@, g1.score, wr),
                      !.writes = @ + 1]
      ELSE g1

\* Game.game_over
game_over(g, wr) ==
  LET g1 == [g EXCEPT !.state = "GAMEOVER"]
  IN  IF g1.score > g1.hiscore
      THEN [g1 EXCEPT !.hiscore_file = save_hiscore(@, g1.score, wr),
                      !.writes = @ + 1,
                      !.hiscore = g1.score]
      ELSE g1

\* register_miss with "if self.lives < 0"
register_miss_below_zero(g, wr) ==
  LET g1 == [g EXCEPT !.streak = 0, !.lives = @ - 1]
  IN  IF g1.lives < 0 THEN game_over(g1, wr) ELSE g1

\* register_miss without "self.streak = 0"
register_miss_keeps_streak(g, wr) ==
  LET g1 == [g EXCEPT !.lives = @ - 1]
  IN  IF g1.lives <= 0 THEN game_over(g1, wr) ELSE g1

\* Game.register_miss
register_miss(g, wr) ==
  LET g1 == [g EXCEPT !.streak = 0, !.lives = @ - 1]
  IN  IF g1.lives <= 0 THEN game_over(g1, wr) ELSE g1

\* register_hit with the bonus taken before "self.streak += 1"
register_hit_bonus_first(g, correct, tip, wr) ==
  IF correct
  THEN LET s     == g.streak + 1
           base  == 50
           bonus == Min(5 * g.streak, 150)
       IN  [g EXCEPT !.streak = s, !.score = @ + base + bonus,
                     !.tip_message = tip, !.tip_timer = 3500]
  ELSE [register_miss(g, wr) EXCEPT !.tip_message = tip, !.tip_timer = 3500]

\* register_hit with "bonus = 5 * self.streak", the cap left out
register_hit_no_cap(g, correct, tip, wr) ==
  IF correct
  THEN LET s     == g.streak + 1
           base  == 50
           bonus == 5 * s
       IN  [g EXCEPT !.streak = s, !.score = @ + base + bonus,
                     !.tip_message = tip, !.tip_timer = 3500]
  ELSE [register_miss(g, wr) EXCEPT !.tip_message = tip, !.tip_timer = 3500]

\* Game.register_hit
register_hit(g, correct, tip, wr) ==
  IF correct
  THEN LET s     == g.streak + 1
           base  == 50
           bonus == Min(5 * s, 150)
       IN  [g EXCEPT !.streak = s, !.score = @ + base + bonus,
                     !.tip_message = tip, !.tip_timer = 3500]
  ELSE [register_miss(g, wr) EXCEPT !.tip_message = tip, !.tip_timer = 3500]

\* position in s of the Item object whose identity is id (0: not in the list)
IndexOf(s, id) ==
  IF \E i \in 1..Len(s) : s[i].id = id
  THEN CHOOSE i \in 1..Len(s) : s[i].id = id
  ELSE 0

\* the loop without "self.register_miss(...)": a fallen Item is only removed
RECURSIVE update_items_no_miss(_, _, _, _, _)
update_items_no_miss(g, copy, i, fall_speed, wr) ==
  IF i > Len(copy) THEN g
  ELSE LET k  == IndexOf(g.items, copy[i].id)
           it == Item_update(g.items[k], fall_speed)
           g1 == [g EXCEPT !.items[k] = it]
       IN  IF it.y > (SCREEN_H + 60) * Unit
           THEN update_items_no_miss([g1 EXCEPT !.items = list_remove(@, it)],
                                     copy, i + 1, fall_speed, wr)
           ELSE update_items_no_miss(g1, copy, i + 1, fall_speed, wr)

\* the "for it in self.items[:]" loop of Game.update, from copy[i] on
RECURSIVE update_items(_, _, _, _, _)
update_items(g, copy, i, fall_speed, wr) ==
  IF i > Len(copy) THEN g
  ELSE LET k  == IndexOf(g.items, copy[i].id)
           it == Item_update(g.items[k], fall_speed)
           g1 == [g EXCEPT !.items[k] = it]
       IN  IF it.y > (SCREEN_H + 60) * Unit
           THEN update_items(register_miss(
                               [g1 EXCEPT !.items = list_remove(@, it)], wr),
                             copy, i + 1, fall_speed, wr)
           ELSE update_items(g1, copy, i + 1, fall_speed, wr)

\* the block without "self.level_time_left -= dt"
level_timer_no_countdown(g, dt, wr) ==
  IF g.level_time_left <= 0
  THEN IF g.score >= g.level_target /\ g.level < Len(LEVELS) - 1
       THEN [g EXCEPT !.level = @ + 1,
                      !.level_time_left = LEVELS[g.level + 2][3] * 1000,
                      !.level_target = LEVELS[g.level + 2][4],
                      !.tip_message = <<"Level up! Level", g.level + 2>>,
                      !.tip_timer = 3000]
       ELSE game_over(g, wr)
  ELSE g

\* the block without "self.level_target = LEVELS[self.level][3]"
level_timer_keeps_target(g, dt, wr) ==
  LET g1 == [g EXCEPT !.level_time_left = @ - dt]
  IN  IF g1.level_time_left <= 0
      THEN IF g1.score >= g1.level_target /\ g1.level < Len(LEVELS) - 1
           THEN [g1 EXCEPT !.level = @ + 1,
                           !.level_time_left = LEVELS[g1.level + 2][3] * 1000,
                           !.tip_message = <<"Level up! Level", g1.level + 2>>,
                           !.tip_timer = 3000]
           ELSE game_over(g1, wr)
      ELSE g1

\* the block with "or" for "and" in the advance condition
level_timer_or(g, dt, wr) ==
  LET g1 == [g EXCEPT !.level_time_left = @ - dt]
  IN  IF g1.level_time_left <= 0
      THEN IF g1.score >= g1.level_target \/ g1.level < Len(LEVELS) - 1
           THEN [g1 EXCEPT !.level = @ + 1,
                           !.level_time_left = LEVELS[g1.level + 2][3] * 1000,
                           !.level_target = LEVELS[g1.level + 2][4],
                           !.tip_message = <<"Level up! Level", g1.level + 2>>,
                           !.tip_timer = 3000]
           ELSE game_over(g1, wr)
      ELSE g1

\* the "Level timer & check progress" block of Game.update
level_timer(g, dt, wr) ==
  LET g1 == [g EXCEPT !.level_time_left = @ - dt]
  IN  IF g1.level_time_left <= 0
      THEN IF g1.score >= g1.level_target /\ g1.level < Len(LEVELS) - 1
           THEN [g1 EXCEPT !.level = @ + 1,
                           !.level_time_left = LEVELS[g1.level + 2][3] * 1000,
                           !.level_target = LEVELS[g1.level + 2][4],
                           !.tip_message = <<"Level up! Level", g1.level + 2>>,
                           !.tip_timer = 3000]
           ELSE game_over(g1, wr)
      ELSE g1

\* the "Tip timer" block of Game.update
tip_tick(g, dt) ==
  IF g.tip_timer > 0
  THEN LET t == g.tip_timer - dt
       IN  [g EXCEPT !.tip_timer = t,
                     !.tip_message = IF t <= 0 THEN <<>> ELSE @]
  ELSE g

\* Game.update; sp holds the draws spawn_item makes if this frame spawns
update(g, dt, sp, wr) ==
  IF g.state # "PLAYING" THEN g
  ELSE LET fall_speed     == LEVELS[g.level + 1][1]
           spawn_interval == LEVELS[g.level + 1][2]
           g1 == [g EXCEPT !.frames_since_spawn = @ + 1]
           g2 == IF g1.frames_since_spawn >= spawn_interval
                 THEN spawn_item([g1 EXCEPT !.frames_since_spawn = 0],
                                 sp.id, sp.name, sp.x, sp.vx, sp.vy,
                                 sp.rot_speed)
                 ELSE g1
           g3 == update_items(g2, g2.items, 1, fall_speed, wr)
           g4 == tip_tick(g3, dt)
       IN  level_timer(g4, dt, wr)

\* the loop without "if it.dragging": the first Item of the list
FirstDragging_any(s) ==
  IF Len(s) > 0 THEN 1 ELSE 0

\* the dragged Item handle_mouse_up acts on: the first one in list order
\* with dragging set (0: none)
FirstDragging(s) ==
  IF \E i \in 1..Len(s) : s[i].dragging
  THEN CHOOSE i \in 1..Len(s) :
         s[i].dragging /\ \A j \in 1..(i - 1) : ~s[j].dragging
  ELSE 0

\* the loop without "break": the last intersecting receptacle decides
FirstBin_no_break(it) ==
  IF \E b \in 1..Len(bins) : colliderect(bins[b].rect, rect(it))
  THEN CHOOSE b \in 1..Len(bins) :
         /\ colliderect(bins[b].rect, rect(it))
         /\ \A c \in (b + 1)..Len(bins) : ~colliderect(bins[c].rect, rect(it))
  ELSE 0

\* the receptacle the "for b in self.bins" loop stops at: the first one in
\* list order whose rectangle intersects the Item's (0: none)
FirstBin(it) ==
  IF \E b \in 1..Len(bins) : colliderect(bins[b].rect, rect(it))
  THEN CHOOSE b \in 1..Len(bins) :
         /\ colliderect(bins[b].rect, rect(it))
         /\ \A c \in 1..(b - 1) : ~colliderect(bins[c].rect, rect(it))
  ELSE 0

\* Game.handle_mouse_down
handle_mouse_down(g, pos) ==
  IF g.state # "PLAYING" THEN g
  ELSE LET hit == {i \in 1..Len(g.items) : collidepoint(rect(g.items[i]), pos)}
       IN  IF hit = {} THEN g
           ELSE LET k  == CHOOSE i \in hit : \A j \in hit : j <= i
                    it == g.items[k]
                IN  [g EXCEPT !.items[k] =
                       [it EXCEPT !.dragging = TRUE,
                                  !.grabbed_dx = it.x - pos[1] * Unit,
                                  !.grabbed_dy = it.y - pos[2] * Unit]]

\* the tip string handle_mouse_up builds, as its parts
drop_tip(it, correct) ==
  IF correct THEN <<"ok", it.name, it.tip>>
  ELSE <<"goes in", it.name, it.category>>

\* handle_mouse_up with the receptacles tested right to left
handle_mouse_up_reversed(g, wr) ==
  IF g.state # "PLAYING" THEN g
  ELSE LET k == FirstDragging(g.items)
       IN  IF k = 0 THEN g
           ELSE LET it == [g.items[k] EXCEPT !.dragging = FALSE]
                    g1 == [g EXCEPT !.items[k] = it]
                    b  == FirstBin_no_break(it)
                IN  IF b = 0 THEN g1
                    ELSE LET correct == (it.category = bins[b].label)
                         IN  register_hit(
                               [g1 EXCEPT !.items = list_remove(@, it)],
                               correct, drop_tip(it, correct), wr)

\* handle_mouse_up without "self.items.remove(it)"
handle_mouse_up_keeps_item(g, wr) ==
  IF g.state # "PLAYING" THEN g
  ELSE LET k == FirstDragging(g.items)
       IN  IF k = 0 THEN g
           ELSE LET it == [g.items[k] EXCEPT !.dragging = FALSE]
                    g1 == [g EXCEPT !.items[k] = it]
                    b  == FirstBin(it)
                IN  IF b = 0 THEN g1
                    ELSE LET correct == (it.category = bins[b].label)
                         IN  register_hit(g1, correct, drop_tip(it, correct),
                                          wr)

\* handle_mouse_up counting a release over no receptacle as a miss
handle_mouse_up_miss(g, wr) ==
  IF g.state # "PLAYING" THEN g
  ELSE LET k == FirstDragging(g.items)
       IN  IF k = 0 THEN g
           ELSE LET it == [g.items[k] EXCEPT !.dragging = FALSE]
                    g1 == [g EXCEPT !.items[k] = it]
                    b  == FirstBin(it)
                IN  IF b = 0
                    THEN register_miss(
                           [g1 EXCEPT !.items = list_remove(@, it)], wr)
                    ELSE LET correct == (it.category = bins[b].label)
                         IN  register_hit(
                               [g1 EXCEPT !.items = list_remove(@, it)],
                               correct, drop_tip(it, correct), wr)

\* Game.handle_mouse_up (pos is not used by the code)
handle_mouse_up(g, wr) ==
  IF g.state # "PLAYING" THEN g
  ELSE LET k == FirstDragging(g.items)
       IN  IF k = 0 THEN g
           ELSE LET it == [g.items[k] EXCEPT !.dragging = FALSE]
                    g1 == [g EXCEPT !.items[k] = it]
                    b  == FirstBin(it)
                IN  IF b = 0 THEN g1
                    ELSE LET correct == (it.category = bins[b].label)
                         IN  register_hit(
                               [g1 EXCEPT !.items = list_remove(@, it)],
                               correct, drop_tip(it, correct), wr)

\* handle_mouse_motion without the "if self.state != PLAYING: return"
handle_mouse_motion_any_state(g, pos) ==
  [g EXCEPT !.items =
     [i \in 1..Len(g.items) |->
        LET it == g.items[i]
        IN  IF it.dragging
            THEN [it EXCEPT !.x = pos[1] * Unit + it.grabbed_dx,
                            !.y = pos[2] * Unit + it.grabbed_dy,
                            !.vx = 0, !.vy = 0]
            ELSE it]]

\* Game.handle_mouse_motion
handle_mouse_motion(g, pos) ==
  IF g.state # "PLAYING" THEN g
  ELSE [g EXCEPT !.items =
          [i \in 1..Len(g.items) |->
             LET it == g.items[i]
             IN  IF it.dragging
                 THEN [it EXCEPT !.x = pos[1] * Unit + it.grabbed_dx,
                                 !.y = pos[2] * Unit + it.grabbed_dy,
                                 !.vx = 0, !.vy = 0]
                 ELSE it]]

\* ------------------------------------------------------------------ inputs
\* clock.tick(FPS) in ms: a regular frame at 60 FPS, and a stall of the
\* process (longer than the longest level)
Dts == {17, 65000}

\* draws of spawn_item: random.choice(ITEMS), randint(60, SCREEN_W - 160),
\* uniform(-0.3, 0.3), uniform(0.5, 1.5), and rot_speed uniform(-0.25, 0.25)
SpawnNames == {"Battery"}
SpawnXs == {440}
SpawnVxs == {200}
SpawnVys == {1000}
RotSpeeds == {100}

\* what the high-score file holds when the program starts
InitialFiles == {[kind |-> "absent", hiscore |-> 0]}

\* event.pos of the pointer events
Positions ==
  { <<500, 0>>,      \* top of the spawn column, over no receptacle
    <<300, 570>>,    \* an Item dragged here overlaps Plastic only
    <<794, 570>>,    \* ... Organic and E-Waste
    <<940, 570>>,    \* ... E-Waste only
    <<500, 760>> }   \* below the window (pointer captured during a drag)

\* while PLAYING the player acts (pointer events, key P) only this many frames
\* after a spawn; any number of events may be queued in that frame, and the
\* process stalls only in that frame.  In the other states events come at
\* any time.
GesturePhases == {10}
PlayerTime == state = "PLAYING" => frames_since_spawn \in GesturePhases
StallTime(dt) == dt > 1000 => frames_since_spawn \in GesturePhases

\* ------------------------------------------------------------------ actions
Init ==
  /\ \E f \in InitialFiles :
       /\ hiscore_file = f
       /\ state = "MENU"
       /\ items = <<>>
       /\ score = 0
       /\ hiscore = load_hiscore(f)
       /\ lives = LIVES_START
       /\ level = 0
       /\ level_time_left = LEVELS[1][3] * 1000
       /\ level_target = LEVELS[1][4]
       /\ frames_since_spawn = 0
       /\ streak = 0
       /\ tip_message = <<>>
       /\ tip_timer = 0
  /\ writes = 0
  /\ run_dt = 0
  /\ button = FALSE
  /\ spawned = 0
  /\ frames = 0
  /\ restarts = 0

\* one pass of the run loop's "if self.state == PLAYING: self.update(dt)"
Tick ==
  /\ state = "PLAYING"
  /\ frames < (IF restarts = 0 THEN MaxFrames ELSE MaxRestartFrames)
  /\ frames_since_spawn + 1 >= LEVELS[level + 1][2] => Len(items) < MaxItems
  /\ \E dt \in Dts, name \in SpawnNames, x \in SpawnXs, vx \in SpawnVxs,
        vy \in SpawnVys, rs \in RotSpeeds, wr \in SaveOutcomes :
       /\ StallTime(dt)
       /\ run_dt' = dt
       /\ Becomes(update(self, dt,
                         [id |-> spawned + 1, name |-> name, x |-> x,
                          vx |-> vx, vy |-> vy, rot_speed |-> rs], wr))
  /\ spawned' = IF frames_since_spawn + 1 >= LEVELS[level + 1][2]
                THEN spawned + 1 ELSE spawned
  /\ frames' = frames + 1
  /\ UNCHANGED <<button, restarts>>

\* one pass of the run loop in MENU, PAUSE or GAMEOVER: the events were
\* drained, "if self.state == PLAYING" is false and update is not called
IdleTick ==
  /\ state # "PLAYING"
  /\ UNCHANGED vars

\* MOUSEBUTTONDOWN, button 1
MouseDown ==
  /\ ~button
  /\ button' = TRUE
  /\ \E pos \in Positions : Becomes(handle_mouse_down(self, pos))
  /\ UNCHANGED <<run_dt, spawned, frames, restarts>>

\* MOUSEBUTTONUP, button 1
MouseUp ==
  /\ button
  /\ button' = FALSE
  /\ \E wr \in SaveOutcomes : Becomes(handle_mouse_up(self, wr))
  /\ UNCHANGED <<run_dt, spawned, frames, restarts>>

\* MOUSEMOTION
MouseMotion ==
  /\ \E pos \in Positions : Becomes(handle_mouse_motion(self, pos))
  /\ UNCHANGED <<run_dt, button, spawned, frames, restarts>>

\* K_SPACE without "and self.state == MENU"
KeySpace_any_state ==
  /\ state' = "PLAYING"
  /\ UNCHANGED <<items, score, hiscore, lives, streak, level, level_time_left,
                 level_target, frames_since_spawn, tip_message, tip_timer,
                 hiscore_file, writes, run_dt, button, spawned, frames,
                 restarts>>

\* KEYDOWN K_SPACE
KeySpace ==
  /\ state' = IF state = "MENU" THEN "PLAYING" ELSE state
  /\ UNCHANGED <<items, score, hiscore, lives, streak, level, level_time_left,
                 level_target, frames_since_spawn, tip_message, tip_timer,
                 hiscore_file, writes, run_dt, button, spawned, frames,
                 restarts>>

\* KEYDOWN K_p
KeyP ==
  /\ state' = CASE state = "PLAYING" -> "PAUSE"
                [] state = "PAUSE"   -> "PLAYING"
                [] OTHER             -> state
  /\ UNCHANGED <<items, score, hiscore, lives, streak, level, level_time_left,
                 level_target, frames_since_spawn, tip_message, tip_timer,
                 hiscore_file, writes, run_dt, button, spawned, frames,
                 restarts>>

\* KEYDOWN K_r
KeyR ==
  IF state = "GAMEOVER"
  THEN /\ restarts < MaxRestarts
       /\ Becomes([reset(self, FALSE) EXCEPT !.state = "PLAYING"])
       /\ restarts' = restarts + 1
       /\ frames' = 0
       /\ UNCHANGED <<run_dt, button, spawned>>
  ELSE UNCHANGED vars

Next ==
  \/ Tick
  \/ IdleTick
  \/ PlayerTime /\ MouseDown
  \/ PlayerTime /\ MouseUp
  \/ PlayerTime /\ MouseMotion
  \/ KeySpace
  \/ PlayerTime /\ KeyP
  \/ KeyR

Spec == Init /\ [][Next]_vars

\* ------------------------------------------------------------------ scoring
\* The scoring methods on their own: a round as the sequence of outcomes its
\* Items have, each Item spawned and resolved in one step.

\* an Item was spawned, dragged over a receptacle and released there
Drop(correct) ==
  /\ state = "PLAYING"
  /\ spawned < MaxDrops
  /\ \E name \in SpawnNames, wr \in SaveOutcomes :
       Becomes(register_hit(self, correct,
                            drop_tip([name |-> name,
                                      category |-> ITEMS[name][1],
                                      tip |-> ITEMS[name][2]], correct), wr))
  /\ spawned' = spawned + 1
  /\ UNCHANGED <<run_dt, button, frames, restarts>>

\* an Item was spawned and fell past the bottom
Fall ==
  /\ state = "PLAYING"
  /\ spawned < MaxDrops
  /\ \E wr \in SaveOutcomes : Becomes(register_miss(self, wr))
  /\ spawned' = spawned + 1
  /\ UNCHANGED <<run_dt, button, frames, restarts>>

NextScoring ==
  \/ KeySpace
  \/ Drop(TRUE)
  \/ Drop(FALSE)
  \/ Fall

SpecScoring == Init /\ [][NextScoring]_vars

\* ------------------------------------------------------------------ levels
\* The level table walked to its end: a round as correct drops (each Item
\* spawned and resolved in one step, as above) between frames that took
\* seconds, so that every level's timer runs out within a few update() calls
\* (fewer than the first spawn interval: update spawns nothing here).
LevelDts == {20000, 65000}

\* one pass of the run loop while PLAYING, after a stall of the process
Stall ==
  /\ state = "PLAYING"
  /\ frames < MaxStalls
  /\ \E dt \in LevelDts, name \in SpawnNames, x \in SpawnXs, vx \in SpawnVxs,
        vy \in SpawnVys, rs \in RotSpeeds, wr \in SaveOutcomes :
       /\ run_dt' = dt
       /\ Becomes(update(self, dt,
                         [id |-> spawned + 1, name |-> name, x |-> x,
                          vx |-> vx, vy |-> vy, rot_speed |-> rs], wr))
  /\ spawned' = IF frames_since_spawn + 1 >= LEVELS[level + 1][2]
                THEN spawned + 1 ELSE spawned
  /\ frames' = frames + 1
  /\ UNCHANGED <<button, restarts>>

NextLevels ==
  \/ KeySpace
  \/ Drop(TRUE)
  \/ Stall
  \/ KeyR

SpecLevels == Init /\ [][NextLevels]_vars

\* ------------------------------------------------------------------ rounds
\* One round to its end, whatever the player does: pause and resume at any
\* time, misses and then correct drops (each Item spawned and resolved in one
\* step, as above; the Items missed are the first ones of the round) between
\* frames that took seconds.

\* one pass of the run loop while PLAYING
Frame ==
  /\ state = "PLAYING"
  /\ frames < MaxRoundFrames
  /\ \E dt \in LevelDts, name \in SpawnNames, x \in SpawnXs, vx \in SpawnVxs,
        vy \in SpawnVys, rs \in RotSpeeds, wr \in SaveOutcomes :
       /\ run_dt' = dt
       /\ Becomes(update(self, dt,
                         [id |-> spawned + 1, name |-> name, x |-> x,
                          vx |-> vx, vy |-> vy, rot_speed |-> rs], wr))
  /\ spawned' = IF frames_since_spawn + 1 >= LEVELS[level + 1][2]
                THEN spawned + 1 ELSE spawned
  /\ frames' = frames + 1
  /\ UNCHANGED <<button, restarts>>

\* key P pressed while paused
Resume == state = "PAUSE" /\ KeyP

NextRound ==
  \/ KeySpace
  \/ KeyP
  \/ spawned < MaxRoundDrops /\ Drop(TRUE)
  \/ spawned < MaxRoundDrops /\ streak = 0 /\ Fall
  \/ Frame

\* the run loop calls update in every pass that finds the state PLAYING once
\* the events are drained, so a game that is PLAYING again and again is
\* updated (SF); the game is not left paused forever (WF on Resume)
FairRound ==
  Init /\ [][NextRound]_vars /\ SF_vars(Frame) /\ WF_vars(Resume)

\* ------------------------------------------------------------------ steps
\* how a step shows which event it handled
UpdateStep  == frames' = frames + 1
RestartStep == state = "GAMEOVER" /\ state' = "PLAYING"

\* MOUSEBUTTONUP handled while PLAYING with Item number k the first dragged
ReleaseOf(k) ==
  /\ button /\ ~button'
  /\ state = "PLAYING"
  /\ k \in 1..Len(items)
  /\ items[k].dragging
  /\ \A j \in 1..(k - 1) : ~items[j].dragging

\* the receptacles an Item's rectangle intersects
Overlapped(it) == {b \in 1..Len(bins) : colliderect(bins[b].rect, rect(it))}
Own(it) == {b \in 1..Len(bins) : bins[b].label = it.category}

\* the release resolved as correct / as wrong
ResolvedCorrect ==
  streak' = streak + 1 /\ score' > score /\ lives' = lives
ResolvedWrong ==
  streak' = 0 /\ score' = score /\ lives' = lives - 1

\* ------------------------------------------------------------------ C1
\* C1 as stated: a correct drop increases score by 50 + min(5*s, 150), s the
\* streak before the drop.
C1_BonusFromOldStreak ==
  [][Drop(TRUE) => score' = score + 50 + Min(5 * streak, 150)]_vars

\* C1 amended: a correct drop increases score by 50 + min(5*(s+1), 150), s
\* the streak before the drop: the bonus is taken from the streak the drop
\* has already incremented.
C1_BonusFromNewStreak ==
  [][Drop(TRUE) => /\ streak' = streak + 1
                   /\ score' = score + 50 + Min(5 * (streak + 1), 150)]_vars

\* a correct drop whose bonus was capped at 150
C1_Witness ==
  /\ streak > 30
  /\ score > 0
  /\ Len(tip_message) = 3
  /\ tip_message[1] = "ok"

\* ------------------------------------------------------------------ C2
\* the score after k correct drops in a row from a fresh round
RECURSIVE SumOfDrops(_)
SumOfDrops(k) ==
  IF k = 0 THEN 0 ELSE SumOfDrops(k - 1) + 50 + Min(5 * k, 150)

\* C2: while no Item of the round fell or was dropped wrong (no life lost),
\* after k Items streak = k and score is the sum over i in 1..k of
\* 50 + min(5*i, 150): 55, 115 and 180 after 1, 2 and 3.
C2_ScoreAfterStreak ==
  state = "PLAYING" /\ lives = LIVES_START =>
    /\ streak = spawned
    /\ score = SumOfDrops(streak)
    /\ streak = 1 => score = 55
    /\ streak = 2 => score = 115
    /\ streak = 3 => score = 180

\* more than thirty correct drops in a row from a fresh round
C2_Witness ==
  /\ state = "PLAYING"
  /\ lives = LIVES_START
  /\ streak = MaxDrops

\* ------------------------------------------------------------------ C3
\* C3 as stated: releasing a dragged Item that overlaps the receptacle of its
\* own category resolves as correct, releasing one that overlaps a receptacle
\* of another category resolves as wrong.
C3_AnyOverlapDecides ==
  [][\A k \in 1..Len(items) : ReleaseOf(k) =>
       /\ Overlapped(items[k]) \cap Own(items[k]) # {} => ResolvedCorrect
       /\ Overlapped(items[k]) \ Own(items[k]) # {} => ResolvedWrong]_vars

\* C3 amended: the leftmost receptacle the released Item overlaps decides: the
\* release resolves as correct when that one is of the Item's category and
\* as wrong when it is of another category.
C3_LeftmostOverlapDecides ==
  [][\A k \in 1..Len(items) : ReleaseOf(k) =>
       \A b \in Overlapped(items[k]) :
          (\A c \in Overlapped(items[k]) : b <= c) =>
             IF b \in Own(items[k]) THEN ResolvedCorrect ELSE ResolvedWrong]_vars

\* a wrong drop was the last drop, after a correct one earlier in the round
C3_Witness ==
  /\ Len(tip_message) = 3
  /\ tip_message[1] = "goes in"
  /\ score > 0

\* ------------------------------------------------------------------ C4
\* C4 as stated: every step that brings lives to 0 ends in GAMEOVER, and no
\* step enters GAMEOVER while lives is greater than 0.
C4_GameOverOnlyAtZeroLives ==
  [][/\ lives > 0 /\ lives' <= 0 => state' = "GAMEOVER"
     /\ state # "GAMEOVER" /\ state' = "GAMEOVER" => lives' <= 0]_vars

\* C4 amended: every step that brings lives to 0 ends in GAMEOVER, and a
\* step enters GAMEOVER with lives greater than 0 only when it is an update
\* in which the level timer ran out.
C4_GameOverAtZeroLivesOrTimeout ==
  [][/\ lives > 0 /\ lives' <= 0 => state' = "GAMEOVER"
     /\ state # "GAMEOVER" /\ state' = "GAMEOVER" /\ lives' > 0
          => UpdateStep /\ level_time_left' <= 0]_vars

\* the last life went with a wrong drop, the level timer still running
C4_Witness ==
  /\ state = "GAMEOVER"
  /\ lives = 0
  /\ level_time_left > 0
  /\ Len(tip_message) = 3
  /\ tip_message[1] = "goes in"

\* ------------------------------------------------------------------ C5
\* C5: at most one Item of the active list has dragging set.
C5_AtMostOneDragging ==
  Cardinality({i \in 1..Len(items) : items[i].dragging}) <= 1

Missed == Len(items) + (spawned' - spawned) - Len(items')

\* C7: lives never exceeds LIVES_START; it increases only in a restart; an
\* update lowers it by the number of Items that fell past the bottom, a
\* release of an Item whose leftmost overlapped receptacle is of another
\* category lowers it by 1, and every other step leaves it unchanged.
C7_Lives ==
  /\ [](lives <= LIVES_START)
  /\ [][/\ lives' > lives => RestartStep
        /\ RestartStep => lives' = LIVES_START
        /\ UpdateStep => lives' = lives - Missed
        /\ \A k \in 1..Len(items) : ReleaseOf(k) =>
             lives' = IF \E b \in Overlapped(items[k]) \ Own(items[k]) :
                           \A c \in Overlapped(items[k]) : b <= c
                      THEN lives - 1 ELSE lives
        /\ ~UpdateStep /\ ~RestartStep
             /\ ~(\E k \in 1..Len(items) : ReleaseOf(k))
             => lives' = lives]_vars

\* two Items fell past the bottom, no drop was ever resolved
C7_Witness ==
  /\ lives = LIVES_START - 2
  /\ tip_message = <<>>
  /\ tip_timer = 0
  /\ restarts = 0

\* ------------------------------------------------------------------ C8
\* C8: streak is 0 right after an update in which an Item fell past the
\* bottom, right after a wrong drop and right after a restart; a correct
\* drop increases it by exactly 1.
C8_Streak ==
  [][/\ UpdateStep /\ Missed > 0 => streak' = 0
     /\ RestartStep => streak' = 0
     /\ \A k \in 1..Len(items) : ReleaseOf(k) =>
          \A b \in Overlapped(items[k]) :
             (\A c \in Overlapped(items[k]) : b <= c) =>
                streak' = IF b \in Own(items[k]) THEN streak + 1 ELSE 0]_vars

\* a streak of two was lost to an Item that fell past the bottom
C8_Witness ==
  /\ streak = 0
  /\ score = 115
  /\ lives = LIVES_START - 1
  /\ Len(tip_message) = 3
  /\ tip_message[1] = "ok"

\* ------------------------------------------------------------------ C9
\* C9: releasing a dragged Item that overlaps no receptacle changes nothing
\* but its dragging flag: it stays in the active list, and score, lives,
\* streak, level and state stay.
C9_ReleaseOverNoBin ==
  [][\A k \in 1..Len(items) :
       ReleaseOf(k) /\ Overlapped(items[k]) = {} =>
         /\ items' = [items EXCEPT ![k].dragging = FALSE]
         /\ UNCHANGED <<score, lives, streak, level, state>>]_vars

\* an Item that was grabbed, moved and released is still in play
C9_Witness ==
  \E i \in 1..Len(items) :
     /\ ~items[i].dragging
     /\ items[i].grabbed_dy # 0
     /\ items[i].vx = 0
     /\ state = "PLAYING"

\* ------------------------------------------------------------------ C10
\* C10: a restart yields PLAYING with score 0, LIVES_START lives, streak 0,
\* level 0 with its timer and target, no Items, and the high score the
\* previous round ended with.
C10_RestartKeepsHighScore ==
  [][RestartStep =>
       /\ score' = 0
       /\ lives' = LIVES_START
       /\ streak' = 0
       /\ level' = 0
       /\ level_time_left' = LEVELS[1][3] * 1000
       /\ level_target' = LEVELS[1][4]
       /\ items' = <<>>
       /\ hiscore' = hiscore]_vars

\* ------------------------------------------------------------------ C11
\* a step taken in MENU, PAUSE or GAMEOVER that is a tick or a pointer event
\* (every step there but the key that leaves the state)
IdleStep == state # "PLAYING" /\ state' = state

\* C11: in MENU, PAUSE and GAMEOVER a tick and every pointer event leave
\* score, lives, streak, level, level_time_left, frames_since_spawn,
\* tip_timer and every Item (position, velocity, dragging) unchanged.
C11_IdleStatesFrozen ==
  [][IdleStep => UNCHANGED <<score, lives, streak, level, level_time_left,
                             frames_since_spawn, tip_timer, items>>]_vars

\* the button was released while the game was paused, over an Item that stays
\* dragging
C11_Witness ==
  /\ state = "PAUSE"
  /\ ~button
  /\ \E i \in 1..Len(items) : items[i].dragging

\* ------------------------------------------------------------------ C12
\* a step that enters GAMEOVER
GameOverStep == state # "GAMEOVER" /\ state' = "GAMEOVER"

\* C12: while PLAYING the in-memory high score is the stored one; a step that
\* enters GAMEOVER sets the high score to the score and issues one write
\* exactly when the score is greater than the high score, and otherwise
\* leaves it and issues none; no other step issues a write; in every GAMEOVER
\* state the high score is >= score; the high score never decreases but in a
\* restart.
C12_HighScoreOnGameOver ==
  /\ [](state = "PLAYING" => hiscore = load_hiscore(hiscore_file))
  /\ [](state = "GAMEOVER" => hiscore >= score)
  /\ [][/\ GameOverStep /\ score' > hiscore
             => hiscore' = score' /\ writes' = writes + 1
        /\ GameOverStep /\ score' <= hiscore
             => hiscore' = hiscore /\ writes' = writes
        /\ ~GameOverStep => writes' = writes
        /\ ~RestartStep => hiscore' >= hiscore]_vars

\* one update took the last life and ran the level timer out (game_over was
\* called twice) with a new high score
C12_Witness ==
  /\ state = "GAMEOVER"
  /\ lives <= 0
  /\ level_time_left <= 0
  /\ score > 0
  /\ hiscore = score
  /\ writes = 1

\* ------------------------------------------------------------------ C13
\* everything but the state and the model's bookkeeping
Round ==
  <<items, score, hiscore, lives, streak, level, level_time_left,
    level_target, frames_since_spawn, tip_message, tip_timer, hiscore_file>>

\* C13: the state changes only from MENU to PLAYING, between PLAYING and
\* PAUSE (both by a key that changes nothing else), from PLAYING to GAMEOVER
\* (lives exhausted, or an update in which the level timer ran out) and from
\* GAMEOVER to PLAYING (restart); MENU is never re-entered and GAMEOVER is
\* never entered from MENU or PAUSE.
C13_Transitions ==
  [][state' # state =>
       \/ state = "MENU" /\ state' = "PLAYING" /\ UNCHANGED Round
       \/ state = "PLAYING" /\ state' = "PAUSE" /\ UNCHANGED Round
       \/ state = "PAUSE" /\ state' = "PLAYING" /\ UNCHANGED Round
       \/ /\ state = "PLAYING" /\ state' = "GAMEOVER"
          /\ lives' <= 0 \/ (UpdateStep /\ level_time_left' <= 0)
       \/ /\ state = "GAMEOVER" /\ state' = "PLAYING"
          /\ restarts' = restarts + 1]_vars

\* a round was started, ended and restarted, and the new round paused
C13_Witness ==
  /\ state = "PAUSE"
  /\ restarts = 1

\* ------------------------------------------------------------------ C14
\* C14: the level index is always within 0..len(LEVELS)-1 and level_target
\* is always the target of the current level's table entry; a step that is
\* not a restart leaves the level index or increases it by exactly 1.
C14_LevelIndex ==
  /\ [](level \in 0..(Len(LEVELS) - 1))
  /\ [](level_target = LEVELS[level + 1][4])
  /\ [][~RestartStep => level' = level \/ level' = level + 1]_vars

\* the timer of the last level ran out with that level's target met
C14_Witness ==
  /\ level = Len(LEVELS) - 1
  /\ level_time_left <= 0
  /\ score >= level_target
  /\ state = "GAMEOVER"

\* ------------------------------------------------------------------ C15
\* the Item objects in a list, by identity
Ids(s) == {s[i].id : i \in 1..Len(s)}

\* the scoring outcomes a step registered: a life lost (miss or wrong drop)
\* or a score gain (correct drop)
Outcomes == (lives - lives') + (IF score' > score THEN 1 ELSE 0)

\* C15: the Items of the active list are distinct objects, each constructed
\* once; a step that is not a restart registers exactly as many outcomes as
\* it removes Items from the active list, and the only Item a step adds is
\* the one it has just constructed: an Item's outcome and its removal are
\* one step, a removed Item never returns (and so has no second outcome), and
\* an Item in the list has had none.
C15_OneOutcomePerItem ==
  /\ [](Cardinality(Ids(items)) = Len(items))
  /\ [](\A id \in Ids(items) : id \in 1..spawned)
  /\ [][~RestartStep =>
          /\ Ids(items') \ Ids(items) \subseteq (spawned + 1)..spawned'
          /\ Outcomes = Cardinality(Ids(items) \ Ids(items'))]_vars

\* one Item was dropped right, one was lost, and one more is in play
C15_Witness ==
  /\ score > 0
  /\ lives = LIVES_START - 1
  /\ Len(items) > 0
  /\ state = "PLAYING"

\* ------------------------------------------------------------------ C16
\* s without its k-th element
Without(s, k) == [i \in 1..(Len(s) - 1) |-> IF i < k THEN s[i] ELSE s[i + 1]]

\* C16: the receptacles stand left to right, apart, in the order Paper,
\* Plastic, Metal, Organic, E-Waste; the release of a dragged Item that
\* intersects at least one of them removes that Item and nothing else from
\* the active list and registers exactly one outcome, the one of the leftmost
\* intersected receptacle: the tip shown and the score gain are those of a
\* correct drop exactly when that receptacle is of the Item's category.
C16_FirstReceptacleDecides ==
  /\ [](/\ [b \in 1..Len(bins) |-> bins[b].label] = BINS
        /\ \A b \in 1..(Len(bins) - 1) :
              bins[b].rect.x + bins[b].rect.w <= bins[b + 1].rect.x)
  /\ [][\A k \in 1..Len(items) :
          ReleaseOf(k) /\ Overlapped(items[k]) # {} =>
            LET b == CHOOSE b \in Overlapped(items[k]) :
                       \A c \in Overlapped(items[k]) : b <= c
                correct == (bins[b].label = items[k].category)
            IN  /\ items' = Without(items, k)
                /\ Outcomes = 1
                /\ tip_message' = drop_tip(items[k], correct)
                /\ score' > score <=> correct]_vars

\* a release took the last life (no update since), and the other Item that
\* was dragged along with the released one intersects two receptacles
C16_Witness ==
  /\ state = "GAMEOVER"
  /\ lives = 0
  /\ ~button
  /\ tip_timer = 3500
  /\ Len(tip_message) = 3
  /\ tip_message[1] = "goes in"
  /\ \E i \in 1..Len(items) :
        items[i].dragging /\ Cardinality(Overlapped(items[i])) = 2

\* ------------------------------------------------------------------ C17
\* C17: an update changes none of x, y, vx, vy, rot of an Item that is
\* dragging and stays in play, and an Item released over no receptacle (it
\* stays in play) has vx = 0 and vy = 0 at the release.
C17_DraggedItemAtRest ==
  [][/\ UpdateStep =>
          \A i \in 1..Len(items) : \A j \in 1..Len(items') :
             items[i].dragging /\ items'[j].id = items[i].id =>
               /\ items'[j].x = items[i].x /\ items'[j].y = items[i].y
               /\ items'[j].vx = items[i].vx /\ items'[j].vy = items[i].vy
               /\ items'[j].rot = items[i].rot
     /\ \A k \in 1..Len(items) :
          ReleaseOf(k) /\ Overlapped(items[k]) = {} =>
            items'[k].vx = 0 /\ items'[k].vy = 0]_vars

\* ------------------------------------------------------------------ C18
\* MOUSEBUTTONUP handled while no Item is dragging
ReleaseOfNothing ==
  /\ button /\ ~button'
  /\ \A i \in 1..Len(items) : ~items[i].dragging

\* C18: a release while no Item is dragging changes neither the state nor
\* score, lives, streak, level, the timers, the tip or any Item.
C18_ReleaseOfNothing ==
  [][ReleaseOfNothing => UNCHANGED <<state, Round, writes>>]_vars

\* the button is held over the receptacles while an Item that was dragged
\* and released earlier falls through them, none dragging
C18_Witness ==
  /\ button
  /\ state = "PLAYING"
  /\ \A i \in 1..Len(items) : ~items[i].dragging
  /\ \E i \in 1..Len(items) : Overlapped(items[i]) # {}

\* ------------------------------------------------------------------ C19
\* C19: lives is within 0..LIVES_START in every reachable state.
C19_LivesInRange ==
  lives \in 0..LIVES_START

\* ------------------------------------------------------------------ C20
\* C20: an update in which a miss ends the game (lives goes from positive to
\* exhausted) registers no further miss, does not advance the level index
\* and does not reset level_time_left or level_target.
C20_GameOverEndsUpdate ==
  [][UpdateStep /\ lives > 0 /\ lives' <= 0 =>
       /\ state' = "GAMEOVER"
       /\ lives' = 0
       /\ level' = level
       /\ level_target' = level_target
       /\ level_time_left' = level_time_left - run_dt']_vars

\* ------------------------------------------------------------------ C21
\* C21: every round ends: from every PLAYING state, as long as update keeps
\* being called with positive dt while PLAYING and the game is not left
\* paused forever, GAMEOVER is reached.
C21_RoundEnds ==
  (state = "PLAYING") ~> (state = "GAMEOVER")

\* the round went through the whole level table and was ended by the timer
\* of the last level, no life lost, that level's target not met
C21_Witness ==
  /\ state = "GAMEOVER"
  /\ level = Len(LEVELS) - 1
  /\ level_time_left <= 0
  /\ lives = LIVES_START
  /\ score < level_target

====
